---- MODULE Spec2Model ----
(***************************************************************************)
(* Model of packages/store/src/internal/internals.ts: the state-class      *)
(* metadata store, the two property-getter strategies, buildGraph,         *)
(* findFullParentPath and topologicalSort.                                  *)
(*                                                                          *)
(* Every function of the file is an operator computed the way the code     *)
(* computes it.  Each has a specification of its own whose Init draws the  *)
(* inputs and whose actions call it; the variables of the other functions  *)
(* stay at their idle values there.  Spec is the union of them.            *)
(***************************************************************************)
EXTENDS Integers, Sequences, FiniteSets, TLC

VARIABLES
    unit,           \* the function this run calls: "sort", "path", "build", "getter", "meta"
    ngDevMode,      \* the ambient build flag: "undefined", "true" or "false"
    graph,          \* StateKeyGraph: [keys |-> own keys in order, adj |-> key -> child names]
    sortOut,        \* outcome of topologicalSort(graph)
    pathOut,        \* outcome of findFullParentPath(graph)
    stateClasses,   \* argument of buildGraph: a list of state classes
    children,       \* metadata.children of every state class ("undefined" or a list)
    buildOut,       \* outcome of buildGraph(stateClasses)
    paths,          \* argument of propGetter: the path segments
    config,         \* argument of propGetter: the NgxsConfig
    root,           \* the value the accessor is applied to
    getter,         \* outcome of propGetter(paths, config)
    functionsBuilt, \* number of `new Function(...)` evaluations so far
    getOut,         \* outcome of applying the accessor to root
    super,          \* state class -> the class it extends, or "none"
    own,            \* state class -> id of the record held under its own META_KEY, or 0
    heap,           \* record id -> the MetaDataModel fields that are written
    nextId,         \* next free record id
    attached,       \* state class -> number of Object.defineProperty(target, META_KEY) calls
    firstRec,       \* state class -> id of the record its first ensureStoreMetadata made, or 0
    lastWrite,      \* state class -> last path written into its own record ("unset" before)
    lastCall        \* the last metadata call and what it returned

vars == <<unit, ngDevMode, graph, sortOut, pathOut, stateClasses, children, buildOut,
          paths, config, root, getter, functionsBuilt, getOut,
          super, own, heap, nextId, attached, firstRec, lastWrite, lastCall>>

sortVars == <<sortOut>>
pathVars == <<pathOut>>
buildVars == <<stateClasses, children, buildOut>>
getterVars == <<paths, config, root, getter, functionsBuilt, getOut>>
metaVars == <<super, own, heap, nextId, attached, firstRec, lastWrite, lastCall>>

----------------------------------------------------------------------------
(* Bounds *)

\* Depth of nested calls the engine allows before it throws RangeError.
MaxStack == 6
\* Longest list of path segments handed to propGetter.
MaxPathLen == 3
\* Records the metadata heap can hold.
MaxRecords == 4

----------------------------------------------------------------------------
(* Sequences *)

Range(s) == {s[i] : i \in DOMAIN s}

\* Array.prototype.indexOf, 1-based; 0 when absent (the code's -1).
IndexOf(s, x) ==
    IF \E i \in DOMAIN s : s[i] = x
    THEN CHOOSE i \in DOMAIN s : s[i] = x /\ \A j \in 1..(i - 1) : s[j] # x
    ELSE 0

\* Array.prototype.reverse
Reverse(s) == [i \in 1..Len(s) |-> s[Len(s) + 1 - i]]

\* The lists without repetition over S.
SeqsNoDup(S) ==
    {s \in UNION {[1..n -> S] : n \in 0..Cardinality(S)} :
        \A i, j \in DOMAIN s : s[i] = s[j] => i = j}

Pending == [status |-> "pending"]
Returned(v) == [status |-> "returned", value |-> v]
Threw(e) == [status |-> "threw", error |-> e]

\* typeof ngDevMode === 'undefined' || ngDevMode
DevMode(flag) == flag = "undefined" \/ flag = "true"

BuildFlags == {"undefined", "true", "false"}

----------------------------------------------------------------------------
(* State names and graphs *)

Names == {"cart", "saved", "items"}

EmptyGraph == [keys |-> <<>>, adj |-> <<>>]

\* The adjacency maps buildGraph can return over Names: every child is a key.
IsClosedGraph(g) ==
    \E ks \in SeqsNoDup(Names) : \E a \in [Range(ks) -> SeqsNoDup(Range(ks))] :
        g = [keys |-> ks, adj |-> a]

----------------------------------------------------------------------------
(* topologicalSort *)

NoError == [kind |-> "none"]

\* new Error(`Circular dependency '${dep}' is required by '${name}': ${ancestors.join(' -> ')}`)
CircularDependency(dep, name, ancestors) ==
    [kind |-> "CircularDependency", dep |-> dep, name |-> name, chain |-> ancestors]

\* Mutant: only the direct parent is compared with the dependency.
CycleGuardParentOnly(flag, ancestors, dep) ==
    DevMode(flag) /\ ancestors[Len(ancestors)] = dep

\* The cycle guard of the dependency loop:
\* (typeof ngDevMode === 'undefined' || ngDevMode) && ancestors.indexOf(dep) >= 0
CycleGuard(flag, ancestors, dep) == DevMode(flag) /\ IndexOf(ancestors, dep) > 0

\* if (sorted.indexOf(name) < 0) sorted.push(name)
PushSorted(sorted, name) ==
    IF IndexOf(sorted, name) = 0 THEN Append(sorted, name) ELSE sorted

RECURSIVE SortVisit(_, _, _, _, _), SortDeps(_, _, _, _, _, _)

\* visit(name, ancestors): st holds the closure's `sorted` and `visited`, and
\* the error once one is thrown.
SortVisit(g, flag, st, name, ancestors) ==
    LET anc == Append(ancestors, name)
        st1 == [st EXCEPT !.visited = @ \cup {name}]
        st2 == SortDeps(g, flag, st1, name, anc, 1)
    IN  IF st2.error # NoError
        THEN st2
        ELSE [st2 EXCEPT !.sorted = PushSorted(@, name)]

\* graph[name].forEach(dep => ...), from the i-th dependency on.
SortDeps(g, flag, st, name, anc, i) ==
    IF i > Len(g.adj[name])
    THEN st
    ELSE LET dep == g.adj[name][i]
         IN  IF CycleGuard(flag, anc, dep)
             THEN [st EXCEPT !.error = CircularDependency(dep, name, anc)]
             ELSE IF dep \in st.visited
                  THEN SortDeps(g, flag, st, name, anc, i + 1)
                  ELSE LET st1 == SortVisit(g, flag, st, dep, anc)
                       IN  IF st1.error # NoError
                           THEN st1
                           ELSE SortDeps(g, flag, st1, name, anc, i + 1)

RECURSIVE SortKeys(_, _, _, _)

\* Object.keys(graph).forEach(k => visit(k)), from the i-th key on.
SortKeys(g, flag, st, i) ==
    IF i > Len(g.keys) \/ st.error # NoError
    THEN st
    ELSE SortKeys(g, flag, SortVisit(g, flag, st, g.keys[i], <<>>), i + 1)

\* What topologicalSort hands back from the visit order.
SortResult(sorted) == Reverse(sorted)

topologicalSort(g, flag) ==
    LET st == SortKeys(g, flag, [sorted |-> <<>>, visited |-> {}, error |-> NoError], 1)
    IN  IF st.error # NoError THEN Threw(st.error) ELSE Returned(SortResult(st.sorted))

----------------------------------------------------------------------------
(* findFullParentPath *)

\* Strings are token lists: a state name is one token, "." is another.
Null == [kind |-> "null"]
Str(tokens) == [kind |-> "string", s |-> tokens]
\* RangeError: Maximum call stack size exceeded
RangeError == [kind |-> "RangeError"]

\* `${parent}.${key}`
Dotted(parent, key) == Str(parent.s \o <<".">> \o <<key>>)

\* Mutant: the key is put in front of the parent's path.
VisitReturnSwapped(parent, key) ==
    IF parent # Null THEN Str(<<key, ".">> \o parent.s) ELSE Str(<<key>>)

\* parent !== null ? `${parent}.${key}` : key       (inside visit)
VisitReturn(parent, key) == IF parent # Null THEN Dotted(parent, key) ELSE Str(<<key>>)

\* parent ? `${parent}.${key}` : key                (the outer loop)
PathEntry(parent, key) ==
    IF parent # Null /\ parent.s # <<>> THEN Dotted(parent, key) ELSE Str(<<key>>)

\* Mutant: indexOf(...) >= -1, true of every key.
ListsChildAlways(g, key, keyToFind) == IndexOf(g.adj[key], keyToFind) >= 0

\* child.hasOwnProperty(key) && child[key].indexOf(keyToFind) >= 0
ListsChild(g, key, keyToFind) == IndexOf(g.adj[key], keyToFind) > 0

RECURSIVE PathVisit(_, _, _), PathScan(_, _, _, _), PathScanLast(_, _, _, _)

\* visit(child, keyToFind) running at call depth `depth`.
PathVisit(g, keyToFind, depth) ==
    IF depth > MaxStack THEN RangeError ELSE PathScan(g, keyToFind, 1, depth)

\* Mutant: the keys are scanned from the last one, so the last parent wins.
PathScanLast(g, keyToFind, i, depth) ==
    IF i > Len(g.keys)
    THEN Null
    ELSE LET key == g.keys[Len(g.keys) + 1 - i]
         IN  IF ListsChild(g, key, keyToFind)
             THEN LET parent == PathVisit(g, key, depth + 1)
                  IN  IF parent = RangeError THEN RangeError ELSE VisitReturn(parent, key)
             ELSE PathScanLast(g, keyToFind, i + 1, depth)

\* for (const key in child) ..., from the i-th key on.
PathScan(g, keyToFind, i, depth) ==
    IF i > Len(g.keys)
    THEN Null
    ELSE LET key == g.keys[i]
         IN  IF ListsChild(g, key, keyToFind)
             THEN LET parent == PathVisit(g, key, depth + 1)
                  IN  IF parent = RangeError THEN RangeError ELSE VisitReturn(parent, key)
             ELSE PathScan(g, keyToFind, i + 1, depth)

RECURSIVE PathLoop(_, _, _)

\* for (const key in obj) newObj[key] = ..., from the i-th key on.
PathLoop(g, newObj, i) ==
    IF i > Len(g.keys)
    THEN Returned(newObj)
    ELSE LET key == g.keys[i]
             parent == PathVisit(g, key, 1)
         IN  IF parent = RangeError
             THEN Threw(RangeError)
             ELSE PathLoop(g, newObj @@ (key :> PathEntry(parent, key).s), i + 1)

findFullParentPath(g) == PathLoop(g, <<>>, 1)

----------------------------------------------------------------------------
(* buildGraph *)

Classes == {"Cart", "CartSaved", "CartSavedItems"}

\* stateClass[META_KEY].name
NameOf(stateClass) ==
    CASE stateClass = "Cart" -> "cart"
      [] stateClass = "CartSaved" -> "saved"
      [] stateClass = "CartSavedItems" -> "items"

\* metadata.children: left out, or a list of state classes
NoChildren == [kind |-> "undefined"]
ChildList(items) == [kind |-> "array", items |-> items]

\* children || []
ChildrenOrEmpty(c) == IF c.kind = "array" THEN c.items ELSE <<>>

\* new Error(`Child state not found: ${stateClass}. ...`)
ChildNotFound(stateClass) == [kind |-> "ChildStateNotFound", child |-> stateClass]
\* meta is undefined and meta[META_KEY] is read
TypeError == [kind |-> "TypeError"]

\* Mutant: the name is read from the child itself, the list is not searched.
findNameUnchecked(list, flag, stateClass) == Returned(NameOf(stateClass))

\* findName: stateClasses.find(g => g === stateClass), the dev-mode throw,
\* then meta[META_KEY].name
findName(list, flag, stateClass) ==
    LET found == IndexOf(list, stateClass) > 0
    IN  IF DevMode(flag) /\ ~found
        THEN Threw(ChildNotFound(stateClass))
        ELSE IF ~found THEN Threw(TypeError) ELSE Returned(NameOf(stateClass))

RECURSIVE MapFindName(_, _, _, _, _)

\* (children || []).map(findName), from the i-th child on; acc is the mapped prefix.
MapFindName(list, flag, kids, acc, i) ==
    IF i > Len(kids)
    THEN Returned(acc)
    ELSE LET r == findName(list, flag, kids[i])
         IN  IF r.status = "threw"
             THEN r
             ELSE MapFindName(list, flag, kids, Append(acc, r.value), i + 1)

\* result[name] = value on a plain object: a new key goes last.
SetKey(g, name, value) ==
    IF name \in Range(g.keys)
    THEN [g EXCEPT !.adj = [k \in DOMAIN g.adj |-> IF k = name THEN value ELSE g.adj[k]]]
    ELSE [keys |-> Append(g.keys, name), adj |-> g.adj @@ (name :> value)]

RECURSIVE BuildReduce(_, _, _, _, _)

\* stateClasses.reduce(..., {}), from the i-th class on.
BuildReduce(list, kidsOf, flag, result, i) ==
    IF i > Len(list)
    THEN Returned(result)
    ELSE LET stateClass == list[i]
             mapped == MapFindName(list, flag, ChildrenOrEmpty(kidsOf[stateClass]), <<>>, 1)
         IN  IF mapped.status = "threw"
             THEN mapped
             ELSE BuildReduce(list, kidsOf, flag,
                              SetKey(result, NameOf(stateClass), mapped.value), i + 1)

buildGraph(list, kidsOf, flag) == BuildReduce(list, kidsOf, flag, EmptyGraph, 1)

----------------------------------------------------------------------------
(* JavaScript values read by the accessors *)

\* Strings of source text and property names are lists of characters; the
\* words "store", "undefined" and " && " are single elements.
Undefined == [t |-> "undefined"]
NullValue == [t |-> "null"]
Zero == [t |-> "number", v |-> "0"]
One == [t |-> "number", v |-> "1"]
EmptyString == [t |-> "string", v |-> ""]
False == [t |-> "boolean", v |-> "false"]
Object(props) == [t |-> "object", props |-> props]

\* ToBoolean
Truthy(x) ==
    CASE x.t = "object" -> TRUE
      [] x.t = "number" -> x.v # "0"
      [] x.t = "string" -> x.v # ""
      [] x.t = "boolean" -> x.v = "true"
      [] OTHER -> FALSE

Nullish(x) == x.t \in {"undefined", "null"}

\* x[name] for x neither null nor undefined: an own property of an object,
\* undefined on a primitive.
Get(x, name) ==
    IF x.t = "object" /\ name \in DOMAIN x.props THEN x.props[name] ELSE Undefined

----------------------------------------------------------------------------
(* compliantPropGetter *)

\* Mutant: a falsy accumulator is turned into undefined.
CompliantStepUndefined(acc, part) == IF Truthy(acc) THEN Get(acc, part) ELSE Undefined

\* acc && acc[part]
CompliantStep(acc, part) == IF Truthy(acc) THEN Get(acc, part) ELSE acc

RECURSIVE Reduce(_, _, _)

\* copyOfPaths.reduce((acc, part) => acc && acc[part], obj), from the i-th part on.
Reduce(parts, acc, i) ==
    IF i > Len(parts) THEN acc ELSE Reduce(parts, CompliantStep(acc, parts[i]), i + 1)

\* The closure compliantPropGetter returns: it keeps a copy of the paths.
compliantPropGetter(segments) ==
    [out |-> Returned([strategy |-> "compliant", copyOfPaths |-> segments]),
     newFunctionCalls |-> 0]

----------------------------------------------------------------------------
(* fastPropGetter *)

\* String(segments[0]): "undefined" when the list is empty.
FirstSegment(segments) == IF Len(segments) = 0 THEN <<"undefined">> ELSE segments[1]

RECURSIVE FastExpr(_, _, _, _)

\* while (++i < l) expr = expr + ' && ' + (seg = seg + '.' + segments[i]),
\* entered with the 0-based index i already incremented.
FastExpr(segments, seg, expr, i) ==
    IF i < Len(segments)
    THEN LET seg1 == seg \o <<".">> \o segments[i + 1]
         IN  FastExpr(segments, seg1, expr \o <<" && ">> \o seg1, i + 1)
    ELSE expr

\* The text of the expression fastPropGetter builds.
FastSource(segments) ==
    LET seg == <<"store", ".">> \o FirstSegment(segments)
    IN  FastExpr(segments, seg, seg, 1)

RECURSIVE Split(_, _, _, _)

\* The pieces of text s between the separators sep, from position i on;
\* cur is the piece being read.
Split(s, sep, cur, i) ==
    IF i > Len(s)
    THEN <<cur>>
    ELSE IF s[i] = sep
         THEN <<cur>> \o Split(s, sep, <<>>, i + 1)
         ELSE Split(s, sep, Append(cur, s[i]), i + 1)

\* One operand of the && chain: `store` followed by .name groups.  The
\* result is the list of names, or "SyntaxError".
ParseOperand(text) ==
    LET pieces == Split(text, ".", <<>>, 1)
    IN  IF /\ pieces[1] = <<"store">>
           /\ \A j \in 2..Len(pieces) :
                  pieces[j] # <<>> /\ "store" \notin Range(pieces[j])
        THEN [ok |-> TRUE, names |-> SubSeq(pieces, 2, Len(pieces))]
        ELSE [ok |-> FALSE, names |-> <<>>]

\* The parse of `return <expr>;`: the operands of the && chain.
ParseExpr(text) ==
    LET operands == Split(text, " && ", <<>>, 1)
        parsed == [j \in 1..Len(operands) |-> ParseOperand(operands[j])]
    IN  [ok |-> \A j \in 1..Len(parsed) : parsed[j].ok,
         operands |-> [j \in 1..Len(parsed) |-> parsed[j].names]]

SyntaxError == [kind |-> "SyntaxError"]

\* new Function('store', 'return ' + expr + ';')
NewFunction(text) ==
    IF ParseExpr(text).ok
    THEN Returned([strategy |-> "fast", body |-> text])
    ELSE Threw(SyntaxError)

fastPropGetter(segments) ==
    [out |-> NewFunction(FastSource(segments)), newFunctionCalls |-> 1]

RECURSIVE EvalMember(_, _, _)

\* store.n1.n2...: the member chain of one operand, from the j-th name on.
EvalMember(names, cur, j) ==
    IF j > Len(names)
    THEN Returned(cur)
    ELSE IF Nullish(cur)
         THEN Threw(TypeError)
         ELSE EvalMember(names, Get(cur, names[j]), j + 1)

RECURSIVE EvalAnd(_, _, _)

\* a && b && ...: the first falsy operand, or the last one.
EvalAnd(operands, store, j) ==
    LET r == EvalMember(operands[j], store, 1)
    IN  IF r.status = "threw" \/ j = Len(operands) \/ ~Truthy(r.value)
        THEN r
        ELSE EvalAnd(operands, store, j + 1)

----------------------------------------------------------------------------
(* propGetter and the call of the accessor it returns *)

NoConfig == [defined |-> FALSE]
NoCompatibility == [defined |-> FALSE]
Compatibility(flag) == [defined |-> TRUE, strictContentSecurityPolicy |-> flag]
Config(compat) == [defined |-> TRUE, compatibility |-> compat]

\* Mutant: the flag itself is not read.
StrictModeAnyCompatibility(cfg) == cfg.defined /\ cfg.compatibility.defined

\* config && config.compatibility && config.compatibility.strictContentSecurityPolicy
StrictMode(cfg) ==
    /\ cfg.defined
    /\ cfg.compatibility.defined
    /\ cfg.compatibility.strictContentSecurityPolicy = "true"

propGetter(segments, cfg) ==
    IF StrictMode(cfg) THEN compliantPropGetter(segments) ELSE fastPropGetter(segments)

\* accessor(obj)
Call(accessor, obj) ==
    IF accessor.strategy = "compliant"
    THEN Returned(Reduce(accessor.copyOfPaths, obj, 1))
    ELSE EvalAnd(ParseExpr(accessor.body).operands, obj, 1)

----------------------------------------------------------------------------
(* ensureStoreMetadata and getStoreMetadata *)

\* The record Object.defineProperty attaches; `path` is the field written later.
DefaultMetadata == [name |-> Null, path |-> Null]

RECURSIVE Inherited(_, _, _)
\* target[META_KEY]: the own property, else the one found along the chain of
\* classes the target extends; 0 stands for undefined.
Inherited(ownMap, superMap, target) ==
    IF ownMap[target] # 0
    THEN ownMap[target]
    ELSE IF superMap[target] = "none"
         THEN 0
         ELSE Inherited(ownMap, superMap, superMap[target])

\* getStoreMetadata(target)
getStoreMetadata(target) == Inherited(own, super, target)

\* Mutant: `META_KEY in target`, which an inherited record satisfies too.
HasMetaInChain(target) == Inherited(own, super, target) # 0

\* target.hasOwnProperty(META_KEY)
HasOwnMeta(target) == own[target] # 0

----------------------------------------------------------------------------
(* Idle values of each group of variables *)

IdleGraph == graph = EmptyGraph /\ ngDevMode = "undefined"
IdleSort == sortOut = Pending
IdlePath == pathOut = Pending
IdleBuild ==
    stateClasses = <<>> /\ children = [c \in Classes |-> NoChildren] /\ buildOut = Pending
IdleGetter ==
    /\ paths = <<>> /\ config = NoConfig /\ root = Undefined
    /\ getter = Pending /\ functionsBuilt = 0 /\ getOut = Pending
IdleMeta ==
    /\ super = <<>> /\ own = <<>> /\ heap = <<>> /\ nextId = 1
    /\ attached = <<>> /\ firstRec = <<>> /\ lastWrite = <<>>
    /\ lastCall = [op |-> "none"]

----------------------------------------------------------------------------
(* Specification of topologicalSort *)

InitSort ==
    /\ unit = "sort"
    /\ IsClosedGraph(graph)
    /\ ngDevMode \in BuildFlags
    /\ IdleSort /\ IdlePath /\ IdleBuild /\ IdleGetter /\ IdleMeta

TopologicalSort ==
    /\ unit = "sort"
    /\ sortOut = Pending
    /\ sortOut' = topologicalSort(graph, ngDevMode)
    /\ UNCHANGED <<unit, ngDevMode, graph, pathVars, buildVars, getterVars, metaVars>>

NextSort == TopologicalSort

SpecSort == InitSort /\ [][NextSort]_vars

----------------------------------------------------------------------------
(* Specification of findFullParentPath *)

InitPath ==
    /\ unit = "path"
    /\ IsClosedGraph(graph)
    /\ ngDevMode = "undefined"
    /\ IdleSort /\ IdlePath /\ IdleBuild /\ IdleGetter /\ IdleMeta

FindFullParentPath ==
    /\ unit = "path"
    /\ pathOut = Pending
    /\ pathOut' = findFullParentPath(graph)
    /\ UNCHANGED <<unit, ngDevMode, graph, sortVars, buildVars, getterVars, metaVars>>

NextPath == FindFullParentPath

SpecPath == InitPath /\ [][NextPath]_vars

----------------------------------------------------------------------------
(* Graph vocabulary of the properties *)

Keys(g) == Range(g.keys)
Edge(g, p, c) == p \in Keys(g) /\ c \in Range(g.adj[p])
ParentsOf(g, n) == {p \in Keys(g) : Edge(g, p, n)}

RECURSIVE Closure(_, _, _)
\* The names reachable from `from` along edges, in at most n further steps.
Closure(g, from, n) ==
    IF n = 0
    THEN from
    ELSE Closure(g, from \cup UNION {Range(g.adj[p]) : p \in from}, n - 1)

Descendants(g, k) == Closure(g, Range(g.adj[k]), Cardinality(Keys(g)))
OnCycle(g, k) == k \in Descendants(g, k)
Cyclic(g) == \E k \in Keys(g) : OnCycle(g, k)
Forest(g) == ~Cyclic(g) /\ \A n \in Keys(g) : Cardinality(ParentsOf(g, n)) <= 1

\* The first key, in key order, whose child list contains n (n has a parent).
FirstParent(g, n) ==
    g.keys[CHOOSE i \in DOMAIN g.keys :
               /\ Edge(g, g.keys[i], n)
               /\ \A j \in 1..(i - 1) : ~Edge(g, g.keys[j], n)]

CartGraph ==
    [keys |-> <<"cart", "saved", "items">>,
     adj |-> [cart |-> <<"saved">>, saved |-> <<"items">>, items |-> <<>>]]

----------------------------------------------------------------------------
(* Properties of topologicalSort *)

SortDone == sortOut # Pending

\* Every key exactly once and nothing else.
IsPermutationOfKeys(g, s) ==
    /\ Range(s) = Keys(g)
    /\ Len(s) = Cardinality(Keys(g))

\* C1: for an acyclic closed-world map topologicalSort returns every key
\* exactly once and no other name, and every child stands before its parent.
C1_ChildrenBeforeParents ==
    (SortDone /\ ~Cyclic(graph)) =>
        /\ sortOut.status = "returned"
        /\ IsPermutationOfKeys(graph, sortOut.value)
        /\ \A p, c \in Keys(graph) :
               Edge(graph, p, c) => IndexOf(sortOut.value, c) < IndexOf(sortOut.value, p)

\* C2 as stated: a map with a cycle always ends in the circular-dependency
\* error, whatever the build.
C2_CycleAlwaysThrows ==
    (SortDone /\ Cyclic(graph)) =>
        /\ sortOut.status = "threw"
        /\ sortOut.error.kind = "CircularDependency"

\* C2 amended: in a development build (ngDevMode undefined or truthy) a map
\* with a cycle ends in the circular-dependency error, which names an edge
\* name -> dep closing the chain of ancestors, whatever the key order.
C2_CycleThrowsInDevMode ==
    (SortDone /\ Cyclic(graph) /\ DevMode(ngDevMode)) =>
        /\ sortOut.status = "threw"
        /\ sortOut.error.kind = "CircularDependency"
        /\ Edge(graph, sortOut.error.name, sortOut.error.dep)
        /\ sortOut.error.chain[Len(sortOut.error.chain)] = sortOut.error.name
        /\ IndexOf(sortOut.error.chain, sortOut.error.dep) > 0

\* A cycle that the traversal only reaches through a key that is on no cycle.
C2_Witness ==
    /\ SortDone /\ DevMode(ngDevMode)
    /\ Len(graph.keys) = 3
    /\ ~OnCycle(graph, graph.keys[1])
    /\ graph.adj[graph.keys[1]] # <<>>
    /\ \A k \in Keys(graph) \ {graph.keys[1]} : OnCycle(graph, k) /\ ~Edge(graph, k, k)
    /\ sortOut.status = "threw"
    /\ Len(sortOut.error.chain) = 3

\* C1 on the documented example: {cart: [saved], saved: [items], items: []}
\* is sorted, and the result is the reverse of the documented one.
C1_Example ==
    /\ graph = CartGraph
    /\ sortOut = Returned(<<"cart", "saved", "items">>)

----------------------------------------------------------------------------
(* Properties of findFullParentPath *)

PathDone == pathOut # Pending

ReturnsPathMap == pathOut.status = "returned" /\ DOMAIN pathOut.value = Keys(graph)

\* C5: for a forest the result has one entry per key; a key without a parent
\* maps to its own name and a key n with parent p maps to path(p) + "." + n.
C5_ForestPaths ==
    (PathDone /\ Forest(graph)) =>
        /\ ReturnsPathMap
        /\ \A n \in Keys(graph) :
               /\ ParentsOf(graph, n) = {} => pathOut.value[n] = <<n>>
               /\ \A p \in ParentsOf(graph, n) :
                      pathOut.value[n] = pathOut.value[p] \o <<".", n>>

\* The example of the function's comment.
C5_Witness ==
    /\ graph = CartGraph
    /\ pathOut = Returned([cart |-> <<"cart">>,
                           saved |-> <<"cart", ".", "saved">>,
                           items |-> <<"cart", ".", "saved", ".", "items">>])

\* C9 as stated: findFullParentPath returns a path map for every finite map.
C9_AlwaysReturns == PathDone => ReturnsPathMap

\* C9 amended: for every acyclic map findFullParentPath returns a path map,
\* and the parent search of each key ends, within as many calls as there are
\* keys, at a node without a parent.
C9_AcyclicReturns ==
    (PathDone /\ ~Cyclic(graph)) =>
        /\ ReturnsPathMap
        /\ \A k \in Keys(graph) :
               /\ Len(pathOut.value[k]) <= 2 * Cardinality(Keys(graph)) - 1
               /\ ParentsOf(graph, pathOut.value[k][1]) = {}

\* A search three calls deep that ends at a root.
C9_Witness ==
    /\ PathDone /\ ~Cyclic(graph)
    /\ pathOut.status = "returned"
    /\ \E k \in Keys(graph) : Len(pathOut.value[k]) = 5

MultiParent(g) == \E n \in Keys(g) : Cardinality(ParentsOf(g, n)) > 1

FirstParentPaths ==
    /\ ReturnsPathMap
    /\ \A n \in Keys(graph) :
           IF ParentsOf(graph, n) = {}
           THEN pathOut.value[n] = <<n>>
           ELSE pathOut.value[n] = pathOut.value[FirstParent(graph, n)] \o <<".", n>>

\* C10 as stated: with a node under several parents the first parent in key
\* order is used at every level, and the other parents are not in the path.
C10_OtherParentsAbsent ==
    (PathDone /\ ~Cyclic(graph) /\ MultiParent(graph)) =>
        /\ FirstParentPaths
        /\ \A n \in Keys(graph) :
               \A q \in ParentsOf(graph, n) :
                   q # FirstParent(graph, n) => q \notin Range(pathOut.value[n])

\* C10 amended: with a node under several parents there is still one path
\* per key, and at every level the parent used is the first key, in key
\* order, whose child list contains the node.
C10_FirstParentWins ==
    (PathDone /\ ~Cyclic(graph) /\ MultiParent(graph)) => FirstParentPaths

\* A node under two parents whose path runs through the first of them only
\* because the second one is listed later.
C10_Witness ==
    /\ PathDone /\ ~Cyclic(graph) /\ pathOut.status = "returned"
    /\ \E n \in Keys(graph) :
           /\ Cardinality(ParentsOf(graph, n)) = 2
           /\ \E q \in ParentsOf(graph, n) :
                  /\ q # FirstParent(graph, n)
                  /\ q \notin Range(pathOut.value[n])

----------------------------------------------------------------------------
(* Specification of buildGraph *)

ChildDeclarations == {NoChildren} \cup {ChildList(l) : l \in SeqsNoDup(Classes)}

InitBuild ==
    /\ unit = "build"
    /\ stateClasses \in SeqsNoDup(Classes)
    /\ children \in [Classes -> ChildDeclarations]
    /\ ngDevMode \in BuildFlags
    /\ buildOut = Pending
    /\ graph = EmptyGraph
    /\ IdleSort /\ IdlePath /\ IdleGetter /\ IdleMeta

BuildGraph ==
    /\ unit = "build"
    /\ buildOut = Pending
    /\ buildOut' = buildGraph(stateClasses, children, ngDevMode)
    /\ UNCHANGED <<unit, ngDevMode, graph, stateClasses, children, sortVars, pathVars,
                   getterVars, metaVars>>

NextBuild == BuildGraph

SpecBuild == InitBuild /\ [][NextBuild]_vars

----------------------------------------------------------------------------
(* Properties of buildGraph *)

BuildDone == buildOut # Pending

DeclaredChildren(c) == ChildrenOrEmpty(children[c])

\* Some class of the list declares a child that is not in the list.
MissingChild ==
    \E c \in Range(stateClasses) :
        \E k \in Range(DeclaredChildren(c)) : k \notin Range(stateClasses)

\* C6: buildGraph throws, returning no map, when a class of the list declares
\* a child outside the list; otherwise the keys of its map are the classes'
\* names, each value is the names of the declared children in declaration
\* order, and every child name is a key.
C6_BuildGraph ==
    BuildDone =>
        IF MissingChild
        THEN buildOut.status = "threw"
        ELSE /\ buildOut.status = "returned"
             /\ Keys(buildOut.value) = {NameOf(c) : c \in Range(stateClasses)}
             /\ \A c \in Range(stateClasses) :
                    LET kids == DeclaredChildren(c)
                    IN  buildOut.value.adj[NameOf(c)] = [i \in 1..Len(kids) |-> NameOf(kids[i])]
             /\ \A n \in Keys(buildOut.value) :
                    Range(buildOut.value.adj[n]) \subseteq Keys(buildOut.value)

\* A production build, where the dev-mode throw is skipped, still fails on
\* an unregistered child.
C6_Witness ==
    /\ BuildDone /\ MissingChild /\ ngDevMode = "false"
    /\ Len(stateClasses) = 2
    /\ buildOut = Threw(TypeError)

----------------------------------------------------------------------------
(* Specification of propGetter *)

\* Path segments are state names: identifiers.
Segments == {<<"a">>, <<"b">>, <<"a", "b">>}
PropertyNames == {<<"a">>, <<"b">>}

Primitives == {Undefined, NullValue, Zero, One, EmptyString, False}
FlatObjects == {Object(p) : p \in [PropertyNames -> Primitives]}

IsRoot(x) ==
    \/ x \in Primitives
    \/ \E va \in Primitives \cup FlatObjects : \E vb \in Primitives :
           x = Object([n \in PropertyNames |-> IF n = <<"a">> THEN va ELSE vb])

IsConfig(cfg) ==
    \/ cfg = NoConfig
    \/ cfg = Config(NoCompatibility)
    \/ \E flag \in {"true", "false", "undefined"} : cfg = Config(Compatibility(flag))

InitGetter ==
    /\ unit = "getter"
    /\ \E n \in 0..MaxPathLen : paths \in [1..n -> Segments]
    /\ IsConfig(config)
    /\ IsRoot(root)
    /\ getter = Pending /\ functionsBuilt = 0 /\ getOut = Pending
    /\ IdleGraph /\ IdleSort /\ IdlePath /\ IdleBuild /\ IdleMeta

PropGetter ==
    /\ unit = "getter"
    /\ getter = Pending
    /\ getter' = propGetter(paths, config).out
    /\ functionsBuilt' = functionsBuilt + propGetter(paths, config).newFunctionCalls
    /\ UNCHANGED <<unit, ngDevMode, graph, paths, config, root, getOut, sortVars, pathVars,
                   buildVars, metaVars>>

CallAccessor ==
    /\ unit = "getter"
    /\ getter.status = "returned"
    /\ getOut = Pending
    /\ getOut' = Call(getter.value, root)
    /\ UNCHANGED <<unit, ngDevMode, graph, paths, config, root, getter, functionsBuilt,
                   sortVars, pathVars, buildVars, metaVars>>

NextGetter == PropGetter \/ CallAccessor

SpecGetter == InitGetter /\ [][NextGetter]_vars

----------------------------------------------------------------------------
(* Properties of the accessors *)

GetterDone == getter # Pending
CallDone == getOut # Pending

\* What the accessor of one strategy gives on obj: the value it returns, or
\* the failure of building or calling it.
Outcome(built, obj) ==
    IF built.out.status = "threw" THEN built.out ELSE Call(built.out.value, obj)

\* The same returned value, or both fail.
SameOutcome(x, y) ==
    \/ x.status = "threw" /\ y.status = "threw"
    \/ x.status = "returned" /\ y.status = "returned" /\ x.value = y.value

\* C3: for every list of segments and every root the interpreted and the
\* compiled accessor give the same outcome.
C3_StrategiesAgree ==
    CallDone =>
        /\ SameOutcome(getOut, Outcome(compliantPropGetter(paths), root))
        /\ SameOutcome(getOut, Outcome(fastPropGetter(paths), root))

RECURSIVE ValueAt(_, _, _)
\* The value found in obj at the first n segments of path.
ValueAt(obj, path, n) ==
    IF n = 0
    THEN obj
    ELSE LET inner == ValueAt(obj, path, n - 1)
         IN  IF inner.t = "object" /\ path[n] \in DOMAIN inner.props
             THEN inner.props[path[n]]
             ELSE Undefined

\* The first non-terminal segment of path whose value in obj is falsy, or 0.
FirstFalsy(obj, path) ==
    IF \E n \in 1..(Len(path) - 1) : ~Truthy(ValueAt(obj, path, n))
    THEN CHOOSE n \in 1..(Len(path) - 1) :
             /\ ~Truthy(ValueAt(obj, path, n))
             /\ \A m \in 1..(n - 1) : Truthy(ValueAt(obj, path, m))
    ELSE 0

FalsyIntermediate ==
    /\ CallDone
    /\ Len(paths) >= 2
    /\ root.t = "object"
    /\ FirstFalsy(root, paths) > 0

\* C4 as stated: a falsy value at a non-terminal segment makes the accessor
\* return undefined, under both strategies.
C4_FalsyGivesUndefined == FalsyIntermediate => getOut = Returned(Undefined)

\* C4 amended: on an object root, a falsy value at a non-terminal segment
\* makes the accessor of either strategy return that falsy value itself
\* (0, "", false, null; undefined only where the value is undefined).
C4_FalsyGivesItself ==
    FalsyIntermediate => getOut = Returned(ValueAt(root, paths, FirstFalsy(root, paths)))

\* Path ["a","b"] on {a: 0, ...} read by the interpreted accessor gives 0.
C4_Witness ==
    /\ FalsyIntermediate
    /\ getter.value.strategy = "compliant"
    /\ paths = << <<"a">>, <<"b">> >>
    /\ root.props[<<"a">>] = Zero
    /\ getOut = Returned(Zero)

\* strictContentSecurityPolicy is true in the configuration.
FlagIsTrue(cfg) ==
    IF cfg = NoConfig \/ cfg = Config(NoCompatibility)
    THEN FALSE
    ELSE cfg.compatibility.strictContentSecurityPolicy = "true"

\* C7: propGetter returns the interpreted accessor, and evaluates no
\* `new Function`, when the flag is true; for every other configuration it
\* returns the compiled accessor.
C7_StrategyByConfig ==
    GetterDone =>
        /\ getter.status = "returned"
        /\ IF FlagIsTrue(config)
           THEN getter.value.strategy = "compliant" /\ functionsBuilt = 0
           ELSE getter.value.strategy = "fast" /\ functionsBuilt = 1

\* The compatibility section is present with the flag left out: compiled.
C7_Witness ==
    /\ GetterDone
    /\ config = Config(Compatibility("undefined"))
    /\ getter.value.strategy = "fast"
    /\ Len(paths) = 2

----------------------------------------------------------------------------
(* Specification of the metadata store *)

Unset == [kind |-> "unset"]
PathValues == {Null, Str(<<"cart">>), Str(<<"cart", ".", "saved">>)}

RECURSIVE SuperChain(_, _, _)
\* The classes c reaches by following superMap at most n times.
SuperChain(superMap, c, n) ==
    IF n = 0 \/ superMap[c] = "none"
    THEN {}
    ELSE {superMap[c]} \cup SuperChain(superMap, superMap[c], n - 1)

\* No class extends itself, directly or not.
IsClassHierarchy(superMap) ==
    \A c \in Classes : c \notin SuperChain(superMap, c, Cardinality(Classes))

InitMeta ==
    /\ unit = "meta"
    /\ super \in [Classes -> Classes \cup {"none"}]
    /\ IsClassHierarchy(super)
    /\ own = [c \in Classes |-> 0]
    /\ heap = <<>>
    /\ nextId = 1
    /\ attached = [c \in Classes |-> 0]
    /\ firstRec = [c \in Classes |-> 0]
    /\ lastWrite = [c \in Classes |-> Unset]
    /\ lastCall = [op |-> "none"]
    /\ IdleGraph /\ IdleSort /\ IdlePath /\ IdleBuild /\ IdleGetter

\* ensureStoreMetadata(target), the record not yet attached.
EnsureAttach(target) ==
    /\ ~HasOwnMeta(target)
    /\ nextId <= MaxRecords
    /\ heap' = heap @@ (nextId :> DefaultMetadata)
    /\ own' = [own EXCEPT ![target] = nextId]
    /\ nextId' = nextId + 1
    /\ attached' = [attached EXCEPT ![target] = @ + 1]
    /\ firstRec' = [firstRec EXCEPT ![target] = IF @ = 0 THEN nextId ELSE @]
    /\ lastCall' = [op |-> "ensure", target |-> target,
                    ret |-> Inherited(own', super, target)]
    /\ UNCHANGED <<super, lastWrite>>

\* ensureStoreMetadata(target), the record already there.
EnsureExisting(target) ==
    /\ HasOwnMeta(target)
    /\ lastCall' = [op |-> "ensure", target |-> target, ret |-> getStoreMetadata(target)]
    /\ UNCHANGED <<super, own, heap, nextId, attached, firstRec, lastWrite>>

EnsureStoreMetadata ==
    /\ unit = "meta"
    /\ \E target \in Classes : EnsureAttach(target) \/ EnsureExisting(target)
    /\ UNCHANGED <<unit, ngDevMode, graph, sortVars, pathVars, buildVars, getterVars>>

GetStoreMetadata ==
    /\ unit = "meta"
    /\ \E target \in Classes :
           lastCall' = [op |-> "get", target |-> target, ret |-> getStoreMetadata(target)]
    /\ UNCHANGED <<super, own, heap, nextId, attached, firstRec, lastWrite>>
    /\ UNCHANGED <<unit, ngDevMode, graph, sortVars, pathVars, buildVars, getterVars>>

\* meta.path = p, on the record the last call returned.
WritePath ==
    /\ unit = "meta"
    /\ lastCall.op \in {"ensure", "get"}
    /\ lastCall.ret # 0
    /\ \E p \in PathValues \ {Null} :
           /\ heap' = [heap EXCEPT ![lastCall.ret].path = p]
           /\ lastWrite' = [c \in Classes |->
                               IF own[c] = lastCall.ret THEN p ELSE lastWrite[c]]
    /\ lastCall' = [op |-> "write", target |-> lastCall.target, ret |-> lastCall.ret]
    /\ UNCHANGED <<super, own, nextId, attached, firstRec>>
    /\ UNCHANGED <<unit, ngDevMode, graph, sortVars, pathVars, buildVars, getterVars>>

NextMeta == EnsureStoreMetadata \/ GetStoreMetadata \/ WritePath

SpecMeta == InitMeta /\ [][NextMeta]_vars

----------------------------------------------------------------------------
(* Properties of the metadata store *)

\* C8: ensureStoreMetadata(m) returns the record the first
\* ensureStoreMetadata(m) created; a record is attached to a class at most
\* once and never replaced, two classes never share a record, and the path
\* written into m's record is the one read through every later
\* ensureStoreMetadata(m) or getStoreMetadata(m).
C8_MetadataStable ==
    /\ \A c \in Classes :
           /\ attached[c] <= 1
           /\ own[c] # 0 => own[c] = firstRec[c]
           /\ lastWrite[c] # Unset =>
                  /\ getStoreMetadata(c) # 0
                  /\ heap[getStoreMetadata(c)].path = lastWrite[c]
    /\ \A c, d \in Classes : (own[c] # 0 /\ own[c] = own[d]) => c = d
    /\ lastCall.op = "ensure" =>
           /\ lastCall.ret # 0
           /\ lastCall.ret = firstRec[lastCall.target]
    /\ (lastCall.op = "get" /\ firstRec[lastCall.target] # 0) =>
           lastCall.ret = firstRec[lastCall.target]

\* A class and the class it extends both hold a record, a path is written
\* into each, and a second ensureStoreMetadata of the subclass returns its own.
C8_Witness ==
    /\ \E c, d \in Classes :
           /\ super[c] = d
           /\ own[c] # 0 /\ own[d] # 0
           /\ own[c] > own[d]
           /\ lastWrite[c] = Str(<<"cart", ".", "saved">>)
           /\ lastWrite[d] = Str(<<"cart">>)
           /\ lastCall = [op |-> "ensure", target |-> c, ret |-> own[c]]

----------------------------------------------------------------------------
(* The whole file: any one of the functions, called on its inputs *)

Init == InitSort \/ InitPath \/ InitBuild \/ InitGetter \/ InitMeta

Next ==
    \/ TopologicalSort
    \/ FindFullParentPath
    \/ BuildGraph
    \/ PropGetter
    \/ CallAccessor
    \/ EnsureStoreMetadata
    \/ GetStoreMetadata
    \/ WritePath

Spec == Init /\ [][Next]_vars

====
